---- MODULE Spec2Model ----
(***************************************************************************)
(* Streaming response pipeline of ChatBot BDM Desktop.                     *)
(*                                                                         *)
(* The control (GUI) thread runs the MainWindow handlers one at a time;    *)
(* each APIWorker runs in its own thread and talks to the control thread   *)
(* only through queued signals (chunk_received, response_complete,         *)
(* error_occurred) and the shared flag _is_running.  The store is the      *)
(* SQLite database behind DatabaseManager, Session State is                *)
(* MainController.current_conversation_id / current_messages, and the      *)
(* renderer is ChatWidget.current_messages.                                *)
(*                                                                         *)
(* Python lists are objects: `lists` is the heap, and current_messages,    *)
(* chat_messages and a worker's `messages` hold references into it.        *)
(***************************************************************************)
EXTENDS Integers, Sequences, FiniteSets, TLC

(***************************************************************************)
(* Bounds of the model.                                                    *)
(***************************************************************************)
MaxTurns   == 2        \* submits explored
MaxConvs   == 2        \* conversations ever created
MaxFrags   == 2        \* text fragments one stream may yield
MaxNav     == 1        \* new session / load / delete events explored
MaxCancels == 1        \* presses of Escape explored
MaxFailures == 1       \* streams that fail
MaxChat    == 3        \* entries of the renderer's list under direct pushes
MaxLiveTurns == 1      \* submits explored under fair scheduling
MaxSaves   == 3        \* messages saved through ConversationManager

UserTexts == << "a", "b" >>            \* texts a user may submit
Fragments == << "x", "y", "z", "w" >>  \* the fragments of a stream, in the order they arrive
ApiKeys   == {"", "k"}
\* first messages of 2, 50 and 51 characters
TitleTexts == { "hi",
                "Explain quicksort in detail please, step by step.!",
                "Explain quicksort in detail please, with an example" }

AUTO_TITLE_MAX_LENGTH == 50

Roles == {"user", "assistant"}

Turns   == 1..MaxTurns
ConvIds == 1..MaxConvs
MaxRefs == MaxTurns + 2                \* lists the controller, the renderer and the workers can hold
Refs    == 1..(MaxRefs + 2)
Fresh1  == MaxRefs + 1                 \* names of the lists a handler creates
Fresh2  == MaxRefs + 2

ErrorSentinel == "[ERREUR]"          \* the fragment chat_completion_stream yields on failure
TypingMark    == "typing-indicator"  \* the mark of a placeholder entry
TypingHtml    == "<typing-indicator>"  \* content of the placeholder entry
LoadingMark   == "loading"           \* the hourglass mark append_message looks for
DefaultTitle  == "New session"
NoTitle       == "-"

VARIABLES
    api_client,         \* MainController.api_client is set
    api_key,            \* the API key SettingsManager holds
    title_worker,       \* the TitleWorker object
    current_conversation_id,   \* MainController.current_conversation_id, 0 = None
    current_messages,   \* reference of MainController.current_messages
    chat_messages,      \* reference of ChatWidget.current_messages
    chat_is_payload,    \* chat_messages is the conv_data['messages'] list of the last load
    lists,              \* heap of list objects
    input_enabled,      \* InputWidget.text_edit enabled
    api_worker,         \* MainWindow.api_worker, 0 = None
    workers,            \* the APIWorker of each turn
    queue,              \* queued signals posted to the control thread
    current_response,   \* MainWindow.current_response
    main_pc,            \* position of the control thread
    db_convs,           \* table conversations: id -> title
    db_msgs,            \* table messages, in rowid order
    next_conv,          \* AUTOINCREMENT of conversations
    next_msg,           \* AUTOINCREMENT of messages
    clock,              \* reading of datetime.now()
    nturns,             \* submits handled so far
    nnav,               \* new session / load / delete events so far
    ncancel,            \* presses of Escape so far
    nfail,              \* streams that have failed so far
    notice,             \* error dialogs shown by the last handler
    crashed,            \* the process was aborted by Qt
    store_faulty        \* the store may refuse writes in this run

vars == << api_client, api_key, title_worker, current_conversation_id, current_messages, chat_messages,
           chat_is_payload, lists, input_enabled, api_worker, workers, queue,
           current_response, main_pc, db_convs, db_msgs, next_conv, next_msg,
           clock, nturns, nnav, ncancel, nfail, notice, crashed, store_faulty >>

(***************************************************************************)
(* Messages and list objects.                                              *)
(***************************************************************************)
Msg(role, content) == [role |-> role, content |-> content]

\* A list object: its items, and the identity of the dict objects of its
\* first nl items (fam names the list that created them; items after nl are
\* dicts created by an append and belong to this list alone).
FreeList == [items |-> << >>, fam |-> 0, nl |-> 0]

Items(l, r) == l[r].items

\* the references held by the controller, the renderer and the worker objects
RootSeq(cm, ch, wk) == << cm, ch >> \o [w \in Turns |-> wk[w].messages]

IsRoot(s, r) == \E i \in 1..Len(s) : s[i] = r

\* lists are named in the order controller, renderer, workers
Rank(s, r) ==
    LET first == CHOOSE i \in 1..Len(s) : s[i] = r /\ \A j \in 1..(i - 1) : s[j] # r
    IN Cardinality({s[j] : j \in 1..first} \ {0})

Rename(s, r) == IF r # 0 /\ IsRoot(s, r) THEN Rank(s, r) ELSE 0

\* reference counting: a list nobody refers to is freed
Collect(l, s) ==
    [k \in Refs |->
        IF \E r \in Refs : IsRoot(s, r) /\ Rank(s, r) = k
        THEN LET r == CHOOSE r \in Refs : IsRoot(s, r) /\ Rank(s, r) = k
             IN [l[r] EXCEPT !.fam = Rename(s, @)]
        ELSE FreeList]

\* `[]`
EmptyListAt(l, r) == [l EXCEPT ![r] = [items |-> << >>, fam |-> r, nl |-> 0]]

\* a list of freshly built dicts
FreshListAt(l, r, items) == [l EXCEPT ![r] = [items |-> items, fam |-> r, nl |-> Len(items)]]

\* list.append(dict)
ListAppend(l, r, m) == [l EXCEPT ![r].items = Append(@, m)]

\* msg['content'] = c on the dict at index i of list r: every list holding
\* that dict shows the change
SameDict(l, r, i, q, j) ==
    \/ q = r /\ j = i
    \/ /\ i = j
       /\ i <= l[r].nl /\ j <= l[q].nl
       /\ l[r].fam = l[q].fam
       /\ l[r].fam # 0

DictSetContent(l, r, i, c) ==
    [q \in Refs |->
        [l[q] EXCEPT !.items =
            [j \in 1..Len(l[q].items) |->
                IF SameDict(l, r, i, q, j)
                THEN [l[q].items[j] EXCEPT !.content = c]
                ELSE l[q].items[j]]]]

(***************************************************************************)
(* MainController._estimate_tokens                                         *)
(***************************************************************************)
Max(a, b) == IF a >= b THEN a ELSE b

EstimateTokens(text) == IF text = "" THEN 0 ELSE Max(1, Len(text) \div 4)

(***************************************************************************)
(* MainController._generate_title_from_message                             *)
(***************************************************************************)
Whitespace == {" "}

\* str.strip
RECURSIVE StripLeft(_)
StripLeft(s) == IF s # "" /\ Head(s) \in Whitespace THEN StripLeft(Tail(s)) ELSE s

RECURSIVE StripRight(_)
StripRight(s) ==
    IF s # "" /\ SubSeq(s, Len(s), Len(s)) \in Whitespace
    THEN StripRight(SubSeq(s, 1, Len(s) - 1))
    ELSE s

Strip(s) == StripRight(StripLeft(s))

GenerateTitleFromMessage(message, max_length) ==
    LET title == Strip(message)
    IN IF Len(title) > max_length
       THEN SubSeq(title, 1, max_length) \o "..."
       ELSE IF title = "" THEN DefaultTitle ELSE title

\* with the default max_length
GenerateTitle(message) == GenerateTitleFromMessage(message, AUTO_TITLE_MAX_LENGTH)

(***************************************************************************)
(* DatabaseManager                                                         *)
(***************************************************************************)
ConvExists(convs, c) == c \in ConvIds /\ convs[c] # NoTitle

ExistingConvs(convs) == {c \in ConvIds : convs[c] # NoTitle}

\* INSERT INTO messages: the row gets the next rowid and datetime.now()
Row(id, conv, role, content, ts, tokens, src) ==
    [id |-> id, conv |-> conv, role |-> role, content |-> content,
     ts |-> ts, tokens |-> tokens, src |-> src]

AddMessageLost(msgs, id, conv, role, content, ts, tokens, src) == msgs

AddMessage(msgs, id, conv, role, content, ts, tokens, src) ==
    Append(msgs, Row(id, conv, role, content, ts, tokens, src))

DeleteConversationRowsKept(msgs, c) == msgs

\* ON DELETE CASCADE
DeleteConversationRows(msgs, c) == SelectSeq(msgs, LAMBDA r : r.conv # c)

RECURSIVE InsertByTs(_, _)
InsertByTs(sorted, r) ==
    IF sorted = << >> THEN << r >>
    ELSE IF sorted[Len(sorted)].ts <= r.ts
         THEN Append(sorted, r)
         ELSE Append(InsertByTs(SubSeq(sorted, 1, Len(sorted) - 1), r), sorted[Len(sorted)])

RECURSIVE SortByTs(_)
SortByTs(rows) ==
    IF rows = << >> THEN << >>
    ELSE InsertByTs(SortByTs(SubSeq(rows, 1, Len(rows) - 1)), rows[Len(rows)])

\* SELECT ... WHERE conversation_id = ? ORDER BY timestamp ASC
GetMessages(msgs, c) == SortByTs(SelectSeq(msgs, LAMBDA r : r.conv = c))

\* rows of a conversation in the order they were inserted
RowsOf(msgs, c) == SelectSeq(msgs, LAMBDA r : r.conv = c)

\* get_conversation_with_messages: role and content only
ApiMessages(rows) == [i \in 1..Len(rows) |-> Msg(rows[i].role, rows[i].content)]

(***************************************************************************)
(* ChatWidget                                                              *)
(***************************************************************************)
\* `sub in s`
Contains(s, sub) ==
    \E i \in 1..(Len(s) - Len(sub) + 1) : SubSeq(s, i, i + Len(sub) - 1) = sub

IsTyping(content)   == content = TypingHtml \/ Contains(content, TypingMark)
HasLoading(content) == Contains(content, LoadingMark)

\* the test of lines 177-187: an immediate duplicate, which is ignored
IsImmediateDuplicate(items, role, content) ==
    /\ items # << >>
    /\ items[Len(items)].role = role
    /\ items[Len(items)].content = content
    /\ ~IsTyping(content)

ChatAppendAlways(items, role, content) == Append(items, Msg(role, content))

\* ChatWidget.append_message
ChatAppend(items, role, content) ==
    IF /\ role = "assistant" /\ items # << >>
       /\ items[Len(items)].role = "assistant"
       /\ HasLoading(items[Len(items)].content)
    THEN [items EXCEPT ![Len(items)] = Msg(role, content)]
    ELSE IF /\ items # << >>
            /\ items[Len(items)].role = role
            /\ items[Len(items)].content = content
            /\ ~IsTyping(content)
         THEN items
         ELSE Append(items, Msg(role, content))

\* ChatWidget.show_typing_indicator
ShowTyping(items) == ChatAppend(items, "assistant", TypingHtml)

RemoveAt(s, i) == SubSeq(s, 1, i - 1) \o SubSeq(s, i + 1, Len(s))

\* ChatWidget.hide_typing_indicator: the last placeholder among the last 3 entries
TypingIdx(items) ==
    {i \in 1..Len(items) : /\ i > Len(items) - 3
                           /\ items[i].role = "assistant"
                           /\ IsTyping(items[i].content)}

HideTypingNone(items) == items

HideTyping(items) ==
    IF TypingIdx(items) = {} THEN items
    ELSE RemoveAt(items, CHOOSE i \in TypingIdx(items) : \A j \in TypingIdx(items) : j <= i)

HasPlaceholder(items) == \E i \in 1..Len(items) : IsTyping(items[i].content)

(***************************************************************************)
(* APIWorker objects.  pc is the position of the worker thread:            *)
(*   none   no worker was created for the turn                             *)
(*   init   start() was called, run() has not begun                        *)
(*   loop   in the for loop over chat_completion_stream                    *)
(*   emit   before response_complete.emit                                  *)
(*   fin    before the finally block                                       *)
(*   done   run() returned, the thread has finished                        *)
(* n, failed, ended, text, conv, row, cancel_req, disturbed, handled and    *)
(* cancelled record what happened to the turn; the code does not read      *)
(* them.                                                                   *)
(* chat_completion_stream turns every exception into the error sentinel,   *)
(* so the except clause of run() has nothing that reaches it.              *)
(***************************************************************************)
NoWorker ==
    [pc |-> "none", is_running |-> FALSE, full_response |-> "", messages |-> 0,
     released |-> FALSE, n |-> 0, failed |-> FALSE, ended |-> FALSE,
     text |-> "", conv |-> 0, row |-> 0,
     cancel_req |-> FALSE, disturbed |-> FALSE, handled |-> FALSE,
     cancelled |-> FALSE]

\* APIWorker.__init__ followed by start()
StartedWorker(ref, conv, text, row) ==
    [NoWorker EXCEPT !.pc = "init", !.messages = ref, !.conv = conv,
                     !.text = text, !.row = row]

\* no TitleWorker was created
NoTitleWorker ==
    [pc |-> "none", conversation_id |-> 0, user_message |-> "",
     returned |-> FALSE, response |-> "", emitted |-> << >>]

Live(wk, w) == wk[w].pc \notin {"none", "done"}

LiveWorkers(wk) == {w \in Turns : Live(wk, w)}

\* APIWorker.is_running
IsRunning(wk, w) == wk[w].is_running

\* APIWorker.stop
Stop(wk, w) == [wk EXCEPT ![w].is_running = FALSE]

SignalAsComplete(sig, w, arg) == [sig |-> "response_complete", w |-> w, arg |-> arg]

Signal(sig, w, arg) == [sig |-> sig, w |-> w, arg |-> arg]

Pending(q, w) == \E i \in 1..Len(q) : q[i].w = w

PendingSig(q, w, sig) == \E i \in 1..Len(q) : q[i].w = w /\ q[i].sig = sig

DropSignals(q, w) == SelectSeq(q, LAMBDA s : s.w # w)

(***************************************************************************)
(* Dropping the last reference to a worker object (self.api_worker = None, *)
(* or self.api_worker = APIWorker(...) over an old one).                   *)
(*   - the thread has not entered run(): the QThread is destroyed while    *)
(*     running and Qt aborts the process;                                  *)
(*   - the thread is inside run(): the frame of run() keeps the object     *)
(*     alive, the thread goes on and its signals stay connected;           *)
(*   - the thread has finished: the object is destroyed, and the signals   *)
(*     it has queued are either still delivered or discarded with it.      *)
(***************************************************************************)
ReleaseAborts(wk, w) == w # 0 /\ wk[w].pc = "init"

ReleaseWorker(wk, w) ==
    IF w = 0 THEN wk
    ELSE [wk EXCEPT ![w].released = TRUE,
                    ![w].messages = IF wk[w].pc = "done" THEN 0 ELSE @]

ReleaseQueue(q, wk, w, keep) ==
    IF w # 0 /\ wk[w].pc = "done" /\ ~keep THEN DropSignals(q, w) ELSE q

\* the choices there are for the queued signals of a destroyed worker
KeepChoices(q, wk, w) ==
    IF w # 0 /\ wk[w].pc = "done" /\ Pending(q, w) THEN {TRUE, FALSE} ELSE {TRUE}

\* a destroyed worker none of whose completions is pending: only whether
\* its completion was handled is remembered
Forget(wk, q) ==
    [w \in Turns |->
        IF wk[w].pc = "done" /\ wk[w].released /\ ~PendingSig(q, w, "response_complete")
        THEN [NoWorker EXCEPT !.pc = "done", !.released = TRUE,
                              !.handled = wk[w].handled]
        ELSE wk[w]]

\* the new values of the objects of the heap and of the signal queue
Commit(l, cm, ch, wk, q) ==
    LET wk1 == Forget(wk, q)
        s   == RootSeq(cm, ch, wk1)
    IN /\ current_messages' = Rename(s, cm)
       /\ chat_messages' = Rename(s, ch)
       /\ workers' = [w \in Turns |-> [wk1[w] EXCEPT !.messages = Rename(s, @)]]
       /\ lists' = Collect(l, s)
       /\ queue' = q

(***************************************************************************)
(* Outcomes of a store write.                                              *)
(***************************************************************************)
WriteOutcomes == IF store_faulty THEN {TRUE, FALSE} ELSE {TRUE}

(***************************************************************************)
(* Initial state: MainWindow.__init__ / MainController.__init__.  The      *)
(* client exists when the settings file holds an API key.                  *)
(***************************************************************************)
InitCommon ==
    /\ api_key \in ApiKeys
    /\ api_client = (api_key # "")
    /\ title_worker = NoTitleWorker
    /\ current_conversation_id = 0
    /\ current_messages = 1
    /\ chat_messages = 2
    /\ chat_is_payload = FALSE
    /\ lists = [r \in Refs |-> IF r \in {1, 2}
                               THEN [items |-> << >>, fam |-> r, nl |-> 0]
                               ELSE FreeList]
    /\ input_enabled = TRUE
    /\ api_worker = 0
    /\ workers = [w \in Turns |-> NoWorker]
    /\ queue = << >>
    /\ current_response = ""
    /\ main_pc = "idle"
    /\ db_convs = [c \in ConvIds |-> NoTitle]
    /\ db_msgs = << >>
    /\ next_conv = 1
    /\ next_msg = 1
    /\ clock = 1
    /\ nturns = 0
    /\ nnav = 0
    /\ ncancel = 0
    /\ notice = {}
    /\ crashed = FALSE

Init == InitCommon /\ nfail = 0 /\ store_faulty = FALSE

\* streams that do not fail
InitNoFailure == InitCommon /\ nfail = MaxFailures /\ store_faulty = FALSE

\* a store that may refuse writes, under streams that do not fail
InitFaulty == InitCommon /\ nfail = MaxFailures /\ store_faulty = TRUE

Idle == main_pc = "idle" /\ ~crashed

\* Qt aborts the process ("QThread: Destroyed while thread is still
\* running"): nothing of the process is left, the store stays as the handler
\* leaves it
Abort ==
    /\ crashed' = TRUE
    /\ api_client' = FALSE
    /\ api_key' = ""
    /\ title_worker' = NoTitleWorker
    /\ current_conversation_id' = 0
    /\ current_messages' = 1
    /\ chat_messages' = 2
    /\ chat_is_payload' = FALSE
    /\ lists' = [r \in Refs |-> IF r \in {1, 2}
                                THEN [items |-> << >>, fam |-> r, nl |-> 0]
                                ELSE FreeList]
    /\ input_enabled' = FALSE
    /\ api_worker' = 0
    /\ workers' = [w \in Turns |-> NoWorker]
    /\ queue' = << >>
    /\ current_response' = ""
    /\ main_pc' = "idle"
    /\ nturns' = MaxTurns
    /\ nnav' = MaxNav
    /\ ncancel' = MaxCancels
    /\ nfail' = MaxFailures
    /\ notice' = {}

\* turns whose completion the control thread has not handled yet
OpenTurns(wk) == {w \in Turns : wk[w].pc # "none" /\ ~wk[w].handled}

Disturb(wk) == [w \in Turns |-> IF w \in OpenTurns(wk)
                                THEN [wk[w] EXCEPT !.disturbed = TRUE] ELSE wk[w]]

(***************************************************************************)
(* The worker thread: APIWorker.run                                        *)
(***************************************************************************)
\* run() begins: lines 55-58
WorkerBegin(w) ==
    /\ ~crashed
    /\ workers[w].pc = "init"
    /\ workers' = [workers EXCEPT ![w].pc = "loop", ![w].is_running = TRUE,
                                  ![w].full_response = ""]
    /\ UNCHANGED << api_client, api_key, title_worker, current_conversation_id, current_messages,
                    chat_messages, chat_is_payload, lists, input_enabled,
                    api_worker, queue, current_response, main_pc, db_convs,
                    db_msgs, next_conv, next_msg, clock, nturns, nnav, ncancel, nfail,
                    notice, crashed, store_faulty >>

\* the k-th fragment of a stream
Frag(k) == Fragments[((k - 1) % Len(Fragments)) + 1]

\* f1 .. fn in order
RECURSIVE Concat(_)
Concat(k) == IF k = 0 THEN "" ELSE Concat(k - 1) \o Frag(k)

\* line 74: self._full_response += chunk
Accumulate(full, chunk) == full \o chunk

\* what the transport may yield next: a fragment, or the error sentinel
\* (once, as the last fragment)
NextChunks(wr) ==
    IF wr.failed THEN {}
    ELSE (IF nfail < MaxFailures THEN {ErrorSentinel} ELSE {})
         \cup (IF wr.n < MaxFrags THEN {Frag(wr.n + 1)} ELSE {})

\* one iteration of the loop, lines 64-82: the next fragment arrives, the
\* flag is checked (a cleared flag leaves the loop and fails the test of
\* line 87), the fragment is accumulated and chunk_received emitted
WorkerChunk(w) ==
    /\ ~crashed
    /\ workers[w].pc = "loop"
    /\ \E chunk \in NextChunks(workers[w]) :
        LET wr  == workers[w]
            wr1 == [wr EXCEPT !.n = IF chunk = ErrorSentinel THEN @ ELSE @ + 1,
                              !.failed = (chunk = ErrorSentinel)]
        IN /\ nfail' = IF chunk = ErrorSentinel THEN nfail + 1 ELSE nfail
           /\ IF ~wr.is_running
              THEN /\ workers' = [workers EXCEPT ![w] = [wr1 EXCEPT !.pc = "fin"]]
                   /\ queue' = queue
              ELSE /\ workers' = [workers EXCEPT ![w] =
                                    [wr1 EXCEPT !.full_response = Accumulate(@, chunk)]]
                   /\ queue' = Append(queue, Signal("chunk_received", w, chunk))
    /\ UNCHANGED << api_client, api_key, title_worker, current_conversation_id, current_messages,
                    chat_messages, chat_is_payload, lists, input_enabled,
                    api_worker, current_response, main_pc, db_convs, db_msgs,
                    next_conv, next_msg, clock, nturns, nnav, ncancel, notice,
                    crashed, store_faulty >>

\* the sequence is exhausted, the loop ends; line 87: if self._is_running
WorkerExhausted(w) ==
    /\ ~crashed
    /\ workers[w].pc = "loop"
    /\ workers' = [workers EXCEPT ![w].ended = TRUE,
                                  ![w].pc = IF workers[w].is_running THEN "emit" ELSE "fin"]
    /\ UNCHANGED << api_client, api_key, title_worker, current_conversation_id, current_messages,
                    chat_messages, chat_is_payload, lists, input_enabled,
                    api_worker, queue, current_response, main_pc, db_convs,
                    db_msgs, next_conv, next_msg, clock, nturns, nnav, ncancel, nfail,
                    notice, crashed, store_faulty >>

\* line 90: self.response_complete.emit(self._full_response)
WorkerEmit(w) ==
    /\ ~crashed
    /\ workers[w].pc = "emit"
    /\ workers' = [workers EXCEPT ![w].pc = "fin"]
    /\ queue' = Append(queue, Signal("response_complete", w, workers[w].full_response))
    /\ UNCHANGED << api_client, api_key, title_worker, current_conversation_id, current_messages,
                    chat_messages, chat_is_payload, lists, input_enabled,
                    api_worker, current_response, main_pc, db_convs, db_msgs,
                    next_conv, next_msg, clock, nturns, nnav, ncancel, nfail, notice,
                    crashed, store_faulty >>

\* lines 96-97 and the return of run(); an object nobody refers to any more
\* is destroyed now
WorkerFinally(w) ==
    /\ ~crashed
    /\ workers[w].pc = "fin"
    /\ LET wk1 == [workers EXCEPT ![w].pc = "done", ![w].is_running = FALSE]
       IN IF workers[w].released
          THEN \E keep \in KeepChoices(queue, wk1, w) :
                 Commit(lists, current_messages, chat_messages,
                        ReleaseWorker(wk1, w), ReleaseQueue(queue, wk1, w, keep))
          ELSE Commit(lists, current_messages, chat_messages, wk1, queue)
    /\ UNCHANGED << api_client, api_key, title_worker, current_conversation_id, chat_is_payload,
                    input_enabled, api_worker, current_response, main_pc,
                    db_convs, db_msgs, next_conv, next_msg, clock, nturns, nnav,
                    ncancel, nfail, notice, crashed, store_faulty >>

WorkerStep ==
    \E w \in Turns :
        \/ WorkerBegin(w)
        \/ WorkerChunk(w)
        \/ WorkerExhausted(w)
        \/ WorkerEmit(w)
        \/ WorkerFinally(w)

(***************************************************************************)
(* The control thread.                                                     *)
(***************************************************************************)
Min(a, b) == IF a <= b THEN a ELSE b

\* in-place change of the items of a list object (append, pop, item assignment)
ListSetItems(l, r, items) ==
    [l EXCEPT ![r].items = items, ![r].nl = Min(@, Len(items))]

\* MainController.load_conversation, line 154: the transcript is a new list
\* of copies of the dicts of conv_data['messages']
LoadedTranscriptShared(l, payload_ref, fresh) ==
    [ref |-> payload_ref, lists |-> l]

LoadedTranscript(l, payload_ref, fresh) ==
    [ref |-> fresh, lists |-> FreshListAt(l, fresh, Items(l, payload_ref))]

\* MainWindow._on_new_conversation
OnNewConversation ==
    /\ Idle
    /\ nnav < MaxNav
    /\ next_conv <= MaxConvs
    /\ nnav' = nnav + 1
    /\ \E ok \in WriteOutcomes :
        IF ok
        THEN /\ db_convs' = [db_convs EXCEPT ![next_conv] = DefaultTitle]
             /\ next_conv' = next_conv + 1
             /\ current_conversation_id' = next_conv
             /\ chat_is_payload' = FALSE
             /\ Commit(EmptyListAt(EmptyListAt(lists, Fresh1), Fresh2), Fresh1, Fresh2,
                       Disturb(workers), queue)
             /\ notice' = {}
        ELSE /\ notice' = {"create"}
             /\ UNCHANGED << db_convs, next_conv, current_conversation_id,
                             current_messages, chat_messages, chat_is_payload,
                             workers, lists, queue >>
    /\ UNCHANGED << api_client, api_key, title_worker, input_enabled, api_worker, current_response,
                    main_pc, db_msgs, next_msg, clock, nturns, ncancel, nfail, crashed,
                    store_faulty >>

\* MainWindow._on_conversation_selected, MainController.load_conversation and
\* MainWindow._on_conversation_loaded
OnConversationSelected(c) ==
    /\ Idle
    /\ nnav < MaxNav
    /\ ConvExists(db_convs, c)
    /\ nnav' = nnav + 1
    /\ LET l1 == FreshListAt(lists, Fresh1, ApiMessages(GetMessages(db_msgs, c)))
           lt == LoadedTranscript(l1, Fresh1, Fresh2)
       IN /\ current_conversation_id' = c
          /\ chat_is_payload' = TRUE
          /\ Commit(lt.lists, lt.ref, Fresh1,
                    IF c # current_conversation_id THEN Disturb(workers) ELSE workers,
                    queue)
    /\ notice' = {}
    /\ UNCHANGED << api_client, api_key, title_worker, input_enabled, api_worker, current_response,
                    main_pc, db_convs, db_msgs, next_conv, next_msg, clock,
                    nturns, ncancel, nfail, crashed, store_faulty >>

\* MainWindow._on_delete_conversations and MainController.delete_conversations
RECURSIVE DeleteRows(_, _)
DeleteRows(msgs, ids) ==
    IF ids = {} THEN msgs
    ELSE LET c == CHOOSE x \in ids : TRUE
         IN DeleteRows(DeleteConversationRows(msgs, c), ids \ {c})

\* the conversations of ids whose DELETE succeeds (delete_conversation
\* returns False on failure and the controller goes on)
DeleteOutcomes(ids) == IF store_faulty THEN SUBSET ids ELSE {ids}

OnDeleteConversations(ids) ==
    /\ Idle
    /\ nnav < MaxNav
    /\ ids # {}
    /\ ids \subseteq ExistingConvs(db_convs)
    /\ nnav' = nnav + 1
    /\ \E done \in DeleteOutcomes(ids) :
       LET hit == current_conversation_id \in ids
           l1  == EmptyListAt(lists, Fresh1)
           l2  == IF hit THEN EmptyListAt(l1, Fresh2) ELSE l1
       IN /\ db_convs' = [c \in ConvIds |-> IF c \in done THEN NoTitle ELSE db_convs[c]]
          /\ db_msgs' = DeleteRows(db_msgs, done)
          /\ current_conversation_id' = IF hit THEN 0 ELSE current_conversation_id
          /\ chat_is_payload' = FALSE
          /\ Commit(l2, IF hit THEN Fresh2 ELSE current_messages, Fresh1,
                    IF hit THEN Disturb(workers) ELSE workers, queue)
    /\ notice' = {}
    /\ UNCHANGED << api_client, api_key, title_worker, input_enabled, api_worker, current_response,
                    main_pc, next_conv, next_msg, clock, nturns, ncancel, nfail,
                    crashed, store_faulty >>

\* MainController._initialize_api_client: a client is built when the key is
\* not empty
InitializeApiClient(client, key) == IF key # "" THEN TRUE ELSE client

\* MainWindow._on_settings_saved and MainController.update_api_settings
OnSettingsSaved(key) ==
    /\ Idle
    /\ api_key' = key
    /\ api_client' = InitializeApiClient(api_client, api_key')
    /\ notice' = {}
    /\ UNCHANGED << title_worker, current_conversation_id, current_messages, chat_messages,
                    chat_is_payload, lists, input_enabled, api_worker, workers,
                    queue, current_response, main_pc, db_convs, db_msgs,
                    next_conv, next_msg, clock, nturns, nnav, ncancel, nfail, crashed,
                    store_faulty >>

(***************************************************************************)
(* Submit.                                                                 *)
(***************************************************************************)
\* MainController.send_message, as a function of the state and of the
\* outcomes of its store writes (okc: the conversation row, oka: the message)
SendMessageUnguarded(l, m, t, okc, oka) ==
    LET cid == IF current_conversation_id = 0 THEN next_conv ELSE current_conversation_id
        cm  == IF current_conversation_id = 0 THEN Fresh1 ELSE current_messages
        l1  == IF current_conversation_id = 0 THEN EmptyListAt(l, cm) ELSE l
    IN [convs |-> [db_convs EXCEPT ![cid] = GenerateTitle(m)],
        next_conv |-> IF current_conversation_id = 0 THEN next_conv + 1 ELSE next_conv,
        conv_id |-> cid, cm |-> cm,
        msgs |-> AddMessage(db_msgs, next_msg, cid, "user", m, clock, EstimateTokens(m), t),
        next_msg |-> next_msg + 1, clock |-> clock + 1,
        lists |-> ListAppend(l1, cm, Msg("user", m)), notice |-> {}, row |-> next_msg]

SendMessage(l, m, t, okc, oka) ==
    IF ~api_client
    THEN [convs |-> db_convs, next_conv |-> next_conv, conv_id |-> current_conversation_id,
          cm |-> current_messages, msgs |-> db_msgs, next_msg |-> next_msg,
          clock |-> clock, lists |-> l, notice |-> {"no_client"}, row |-> 0]
    ELSE LET create  == current_conversation_id = 0
             created == create /\ okc
             cid     == IF created THEN next_conv ELSE current_conversation_id
             cm      == IF created THEN Fresh1 ELSE current_messages
             l1      == IF created THEN EmptyListAt(l, cm) ELSE l
             retitle == ~create /\ Len(Items(l, current_messages)) = 0 /\ okc
             stored  == cid # 0 /\ oka
         IN [convs |-> IF created \/ retitle
                       THEN [db_convs EXCEPT ![cid] = GenerateTitle(m)]
                       ELSE db_convs,
             next_conv |-> IF created THEN next_conv + 1 ELSE next_conv,
             conv_id |-> cid,
             cm |-> cm,
             msgs |-> IF stored
                      THEN AddMessage(db_msgs, next_msg, cid, "user", m, clock,
                                      EstimateTokens(m), t)
                      ELSE db_msgs,
             next_msg |-> IF stored THEN next_msg + 1 ELSE next_msg,
             clock |-> IF stored THEN clock + 1 ELSE clock,
             lists |-> IF stored THEN ListAppend(l1, cm, Msg("user", m)) ELSE l1,
             notice |-> (IF create /\ ~okc THEN {"create"} ELSE {})
                        \cup (IF stored THEN {} ELSE {"send"}),
             row |-> IF stored THEN next_msg ELSE 0]

SetEnabledStuck(enabled) == FALSE

\* InputWidget.set_enabled
SetEnabled(enabled) == enabled

\* InputWidget.set_enabled / _on_send_clicked: a disabled text edit takes no
\* Enter key and the send button no click
SubmitAlways == TRUE

SubmitEnabled == input_enabled

\* the texts of a turn: a text seen before, or the next new one
TextsFor(t) == {UserTexts[i] : i \in 1..Min(t, Len(UserTexts))}

\* MainWindow._on_message_submitted followed by _start_api_worker
MessageSubmitted(m) ==
    /\ Idle
    /\ nturns < MaxTurns
    /\ (api_client /\ current_conversation_id = 0) => next_conv <= MaxConvs
    /\ \E okc \in WriteOutcomes, oka \in WriteOutcomes :
        LET t     == nturns + 1
            chat1 == ChatAppend(Items(lists, chat_messages), "user", m)
            l0    == ListSetItems(lists, chat_messages, chat1)
            sm    == SendMessage(l0, m, t, okc, oka)
            wk0   == IF sm.conv_id # current_conversation_id
                     THEN Disturb(workers) ELSE workers
        IN /\ db_convs' = sm.convs
           /\ db_msgs' = sm.msgs
           /\ next_conv' = sm.next_conv
           /\ next_msg' = sm.next_msg
           /\ clock' = sm.clock
           /\ IF ~api_client
              THEN \* _start_api_worker, lines 292-295
                   /\ notice' = sm.notice \cup {"no_client"}
                   /\ input_enabled' = SetEnabled(TRUE)
                   /\ nturns' = t
                   /\ current_conversation_id' = sm.conv_id
                   /\ Commit(sm.lists, sm.cm, chat_messages, wk0, queue)
                   /\ UNCHANGED << api_client, api_key, title_worker, chat_is_payload, api_worker,
                                   current_response, main_pc, nnav, ncancel, nfail,
                                   crashed >>
              ELSE IF ReleaseAborts(wk0, api_worker)
              THEN Abort
              ELSE \* _start_api_worker, lines 297-321
                   \E keep \in KeepChoices(queue, wk0, api_worker) :
                   LET chat2 == ShowTyping(Items(sm.lists, chat_messages))
                       l2    == ListSetItems(sm.lists, chat_messages, chat2)
                       wk1   == ReleaseWorker(wk0, api_worker)
                   IN /\ notice' = sm.notice
                      /\ input_enabled' = SetEnabled(FALSE)
                      /\ nturns' = t
                      /\ current_conversation_id' = sm.conv_id
                      /\ Commit(l2, sm.cm, chat_messages,
                                [wk1 EXCEPT ![t] = StartedWorker(sm.cm, sm.conv_id, m, sm.row)],
                                ReleaseQueue(queue, wk0, api_worker, keep))
                      /\ api_worker' = t
                      /\ current_response' = ""
                      /\ UNCHANGED << api_client, api_key, title_worker, chat_is_payload, main_pc,
                                      nnav, ncancel, nfail, crashed >>
    /\ UNCHANGED store_faulty

\* a submit through the input widget
OnMessageSubmitted ==
    SubmitEnabled /\ \E m \in TextsFor(nturns + 1) : MessageSubmitted(m)

\* the slot invoked whatever the state of the input widget
DirectSubmit == \E m \in TextsFor(nturns + 1) : MessageSubmitted(m)

(***************************************************************************)
(* Cancel: MainWindow._on_cancel_streaming (Escape)                        *)
(***************************************************************************)
\* the Escape key was pressed; it asks to cancel the turn of the window's
\* worker when every fragment that worker has emitted so far has arrived
CancelRequested(wk, q) ==
    [w \in Turns |->
        IF w \in OpenTurns(wk)
        THEN [wk[w] EXCEPT !.disturbed = TRUE,
                           !.cancel_req = \/ @
                                          \/ /\ w = api_worker
                                             /\ wk[w].full_response # ""
                                             /\ ~PendingSig(q, w, "chunk_received")]
        ELSE wk[w]]

OnCancelStreaming ==
    /\ Idle
    /\ ncancel < MaxCancels
    /\ ncancel' = ncancel + 1
    /\ IF api_worker # 0 /\ IsRunning(workers, api_worker)
       THEN /\ workers' = Stop(CancelRequested(workers, queue), api_worker)
            /\ main_pc' = "wait_cancel"
       ELSE /\ workers' = CancelRequested(workers, queue)
            /\ main_pc' = main_pc
    /\ notice' = {}
    /\ UNCHANGED << api_client, api_key, title_worker, current_conversation_id, current_messages,
                    chat_messages, chat_is_payload, lists, input_enabled,
                    api_worker, queue, current_response, db_convs, db_msgs,
                    next_conv, next_msg, clock, nturns, nnav, nfail, crashed,
                    store_faulty >>

\* wait() returns; the rest of _cleanup_worker and of _on_cancel_streaming
CancelWaitReturns ==
    /\ ~crashed
    /\ main_pc = "wait_cancel"
    /\ workers[api_worker].pc = "done"
    /\ \E keep \in KeepChoices(queue, workers, api_worker) :
        Commit(ListSetItems(lists, chat_messages, HideTyping(Items(lists, chat_messages))),
               current_messages, chat_messages,
               ReleaseWorker([workers EXCEPT ![api_worker].cancelled = TRUE], api_worker),
               ReleaseQueue(queue, workers, api_worker, keep))
    /\ api_worker' = 0
    /\ input_enabled' = SetEnabled(TRUE)
    /\ current_response' = ""
    /\ main_pc' = "idle"
    /\ UNCHANGED << api_client, api_key, title_worker, current_conversation_id, chat_is_payload,
                    db_convs, db_msgs, next_conv, next_msg, clock, nturns, nnav,
                    ncancel, nfail, notice, crashed, store_faulty >>

(***************************************************************************)
(* Delivery of the queued signals of the workers.                          *)
(***************************************************************************)
\* MainController.save_assistant_message, as a function of the state and of
\* the outcome of its store write; w is the worker whose signal carries the
\* content
SaveAssistantMessageMirrorFirst(l, content, w, ok) ==
    LET stored == current_conversation_id # 0 /\ ok
    IN [msgs |-> IF stored
                 THEN AddMessage(db_msgs, next_msg, current_conversation_id,
                                 "assistant", content, clock, EstimateTokens(content), w)
                 ELSE db_msgs,
        next_msg |-> IF stored THEN next_msg + 1 ELSE next_msg,
        clock |-> IF stored THEN clock + 1 ELSE clock,
        lists |-> ListAppend(l, current_messages, Msg("assistant", content))]

SaveAssistantMessage(l, content, w, ok) ==
    LET stored == current_conversation_id # 0 /\ ok
    IN [msgs |-> IF stored
                 THEN AddMessage(db_msgs, next_msg, current_conversation_id,
                                 "assistant", content, clock, EstimateTokens(content), w)
                 ELSE db_msgs,
        next_msg |-> IF stored THEN next_msg + 1 ELSE next_msg,
        clock |-> IF stored THEN clock + 1 ELSE clock,
        lists |-> IF stored
                  THEN ListAppend(l, current_messages, Msg("assistant", content))
                  ELSE l]

\* MainWindow._on_chunk_received
OnChunkReceived ==
    /\ Idle
    /\ queue # << >>
    /\ Head(queue).sig = "chunk_received"
    /\ current_response' = current_response \o Head(queue).arg
    /\ queue' = Tail(queue)
    /\ notice' = {}
    /\ UNCHANGED << api_client, api_key, title_worker, current_conversation_id, current_messages,
                    chat_messages, chat_is_payload, lists, input_enabled,
                    api_worker, workers, main_pc, db_convs, db_msgs, next_conv,
                    next_msg, clock, nturns, nnav, ncancel, nfail, crashed,
                    store_faulty >>

\* MainWindow._on_response_complete, with _cleanup_worker up to the point
\* where it either blocks in wait() or drops the reference
OnResponseComplete ==
    /\ Idle
    /\ queue # << >>
    /\ Head(queue).sig = "response_complete"
    /\ \E ok \in WriteOutcomes :
        LET s   == Head(queue)
            q   == Tail(queue)
            l1  == ListSetItems(lists, chat_messages,
                                HideTyping(Items(lists, chat_messages)))
            sv  == SaveAssistantMessage(l1, s.arg, s.w, ok)
            l2  == ListSetItems(sv.lists, chat_messages,
                                ChatAppend(Items(sv.lists, chat_messages),
                                           "assistant", s.arg))
            wk0 == [workers EXCEPT ![s.w].handled = TRUE]
        IN /\ db_msgs' = sv.msgs
           /\ next_msg' = sv.next_msg
           /\ clock' = sv.clock
           /\ IF api_worker # 0 /\ IsRunning(wk0, api_worker)
              THEN /\ Commit(l2, current_messages, chat_messages,
                             Stop(wk0, api_worker), q)
                   /\ main_pc' = "wait_complete"
                   /\ input_enabled' = SetEnabled(TRUE)
                   /\ notice' = {}
                   /\ UNCHANGED << api_client, api_key, title_worker, current_conversation_id,
                                   chat_is_payload, api_worker, current_response,
                                   nturns, nnav, ncancel, nfail, crashed >>
              ELSE IF ReleaseAborts(wk0, api_worker)
              THEN Abort
              ELSE \E keep \in KeepChoices(q, wk0, api_worker) :
                   /\ Commit(l2, current_messages, chat_messages,
                             ReleaseWorker(wk0, api_worker),
                             ReleaseQueue(q, wk0, api_worker, keep))
                   /\ api_worker' = 0
                   /\ current_response' = ""
                   /\ main_pc' = "idle"
                   /\ input_enabled' = SetEnabled(TRUE)
                   /\ notice' = {}
                   /\ UNCHANGED << api_client, api_key, title_worker, current_conversation_id,
                                   chat_is_payload, nturns, nnav, ncancel, nfail, crashed >>
    /\ UNCHANGED << db_convs, next_conv, store_faulty >>

\* wait() returns; the rest of _cleanup_worker and of _on_response_complete
CompleteWaitReturns ==
    /\ ~crashed
    /\ main_pc = "wait_complete"
    /\ workers[api_worker].pc = "done"
    /\ \E keep \in KeepChoices(queue, workers, api_worker) :
        Commit(lists, current_messages, chat_messages,
               ReleaseWorker(workers, api_worker),
               ReleaseQueue(queue, workers, api_worker, keep))
    /\ api_worker' = 0
    /\ current_response' = ""
    /\ main_pc' = "idle"
    /\ UNCHANGED << api_client, api_key, title_worker, current_conversation_id, chat_is_payload,
                    input_enabled, db_convs, db_msgs, next_conv, next_msg, clock,
                    nturns, nnav, ncancel, nfail, notice, crashed, store_faulty >>

(***************************************************************************)
(* datetime.now() is the local wall clock: it can be set back (end of      *)
(* daylight saving time, clock synchronisation).                           *)
(***************************************************************************)
ClockSetBack ==
    /\ ~crashed
    /\ \E c \in 1..(clock - 1) : clock' = c
    /\ UNCHANGED << api_client, api_key, title_worker, current_conversation_id, current_messages,
                    chat_messages, chat_is_payload, lists, input_enabled,
                    api_worker, workers, queue, current_response, main_pc,
                    db_convs, db_msgs, next_conv, next_msg, nturns, nnav,
                    ncancel, nfail, notice, crashed, store_faulty >>

(***************************************************************************)
(* Specifications.                                                         *)
(***************************************************************************)
UserEvent ==
    \/ OnMessageSubmitted
    \/ OnCancelStreaming
    \/ OnNewConversation
    \/ \E c \in ConvIds : OnConversationSelected(c)
    \/ \E ids \in SUBSET ConvIds : OnDeleteConversations(ids)
    \/ \E key \in ApiKeys : OnSettingsSaved(key)

ControlStep ==
    \/ UserEvent
    \/ OnChunkReceived
    \/ OnResponseComplete
    \/ CancelWaitReturns
    \/ CompleteWaitReturns

Next == ControlStep \/ WorkerStep

\* the application as its user interface drives it
Spec == Init /\ [][Next]_vars

\* the submit slot called in any state, the turns left to themselves
NextAPI ==
    \/ DirectSubmit
    \/ OnChunkReceived
    \/ OnResponseComplete
    \/ CompleteWaitReturns
    \/ WorkerStep

SpecAPI == Init /\ [][NextAPI]_vars

\* submits under a wall clock that can be set back
NextClock ==
    \/ OnMessageSubmitted
    \/ OnChunkReceived
    \/ OnResponseComplete
    \/ WorkerStep
    \/ ClockSetBack

SpecClock == Init /\ [][NextClock]_vars

\* One turn and its cancel, with the scheduling the code can count on: the
\* control thread runs the handler it is in, and a worker thread runs the
\* statements of run() that do not wait for the network.  When the next
\* fragment arrives, or the stream ends, is up to the transport
\* (chat_completion_stream skips chunks without content, so a connection
\* that stays alive without content never returns to the loop of run()).
NextWait ==
    \/ OnMessageSubmitted
    \/ OnCancelStreaming
    \/ CancelWaitReturns
    \/ OnChunkReceived
    \/ OnResponseComplete
    \/ CompleteWaitReturns
    \/ WorkerStep

FairWait ==
    /\ WF_vars(CancelWaitReturns)
    /\ WF_vars(CompleteWaitReturns)
    /\ \A w \in Turns : /\ WF_vars(WorkerBegin(w))
                        /\ WF_vars(WorkerEmit(w))
                        /\ WF_vars(WorkerFinally(w))

SpecWait == InitNoFailure /\ [][NextWait]_vars /\ FairWait

\* The turns under fair scheduling: the event loop of the control thread
\* delivers the queued signals and a blocked wait() returns once the thread
\* has finished; the worker threads run, and a stream yields its next
\* fragment or ends.
EventLoop ==
    \/ OnChunkReceived
    \/ OnResponseComplete
    \/ CancelWaitReturns
    \/ CompleteWaitReturns

SubmitLive == nturns < MaxLiveTurns /\ OnMessageSubmitted

NextLive ==
    \/ SubmitLive
    \/ OnCancelStreaming
    \/ EventLoop
    \/ WorkerStep

FairLive == WF_vars(EventLoop) /\ WF_vars(WorkerStep)

SpecLive == Init /\ [][NextLive]_vars /\ FairLive

\* contents pushed to the renderer: texts, a text that quotes the mark of the
\* placeholder, the placeholder, a loading message
RenderContents == {"a", "b", "what is typing-indicator", TypingHtml, "loading a"}

\* ChatWidget.append_message called on the renderer as it stands
ChatPush(role, content) ==
    /\ Idle
    /\ Len(Items(lists, chat_messages)) < MaxChat
    /\ lists' = ListSetItems(lists, chat_messages,
                             ChatAppend(Items(lists, chat_messages), role, content))
    /\ notice' = IF IsImmediateDuplicate(Items(lists, chat_messages), role, content)
                 THEN {"duplicate"} ELSE {}
    /\ UNCHANGED << api_client, api_key, title_worker, current_conversation_id, current_messages,
                    chat_messages, chat_is_payload, input_enabled, api_worker,
                    workers, queue, current_response, main_pc, db_convs, db_msgs,
                    next_conv, next_msg, clock, nturns, nnav, ncancel, nfail,
                    crashed, store_faulty >>

\* ChatWidget.hide_typing_indicator called on the renderer as it stands
ChatHide ==
    /\ Idle
    /\ lists' = ListSetItems(lists, chat_messages, HideTyping(Items(lists, chat_messages)))
    /\ notice' = {}
    /\ UNCHANGED << api_client, api_key, title_worker, current_conversation_id, current_messages,
                    chat_messages, chat_is_payload, input_enabled, api_worker,
                    workers, queue, current_response, main_pc, db_convs, db_msgs,
                    next_conv, next_msg, clock, nturns, nnav, ncancel, nfail,
                    crashed, store_faulty >>

NextRender ==
    \/ \E role \in Roles, content \in RenderContents : ChatPush(role, content)
    \/ ChatHide

SpecRender == Init /\ [][NextRender]_vars

\* send_message called with first messages of any length
SubmitTitled == SubmitEnabled /\ \E m \in TitleTexts : MessageSubmitted(m)

NextTitle ==
    \/ SubmitTitled
    \/ OnNewConversation
    \/ OnChunkReceived
    \/ OnResponseComplete
    \/ WorkerStep

SpecTitle == InitNoFailure /\ [][NextTitle]_vars

\* submits and navigation over a store that may refuse any write
NextFaulty ==
    \/ OnMessageSubmitted
    \/ OnNewConversation
    \/ \E c \in ConvIds : OnConversationSelected(c)
    \/ \E ids \in SUBSET ConvIds : OnDeleteConversations(ids)
    \/ OnChunkReceived
    \/ OnResponseComplete
    \/ WorkerStep

SpecFaulty == InitFaulty /\ [][NextFaulty]_vars


(***************************************************************************)
(* ConversationManager on its own.  It has the two fields of Session       *)
(* State, which the variables current_conversation_id and current_messages *)
(* stand for in SpecManager; chat_messages is the reference its caller     *)
(* keeps to the list the last load_conversation returned.                  *)
(***************************************************************************)
ManagerTitle == "Nouvelle conversation"

\* what load_conversation returns: line 53 returns the object line 51 stored
Returned(l, kept, fresh) == [ref |-> kept, lists |-> l]

\* ConversationManager.create_conversation
MgrCreateConversation ==
    /\ next_conv <= MaxConvs
    /\ db_convs' = [db_convs EXCEPT ![next_conv] = ManagerTitle]
    /\ next_conv' = next_conv + 1
    /\ current_conversation_id' = next_conv
    /\ Commit(EmptyListAt(lists, Fresh1), Fresh1, chat_messages, workers, queue)
    /\ UNCHANGED << api_client, api_key, title_worker, chat_is_payload, input_enabled, api_worker,
                    current_response, main_pc, db_msgs, next_msg, clock, nturns,
                    nnav, ncancel, nfail, notice, crashed, store_faulty >>

\* ConversationManager.load_conversation
MgrLoadConversation(c) ==
    /\ ConvExists(db_convs, c)
    /\ LET l1  == FreshListAt(lists, Fresh1, ApiMessages(GetMessages(db_msgs, c)))
           ret == Returned(l1, Fresh1, Fresh2)
       IN /\ current_conversation_id' = c
          /\ chat_is_payload' = TRUE
          /\ Commit(ret.lists, Fresh1, ret.ref, workers, queue)
    /\ UNCHANGED << api_client, api_key, title_worker, input_enabled, api_worker, current_response,
                    main_pc, db_convs, db_msgs, next_conv, next_msg, clock,
                    nturns, nnav, ncancel, nfail, notice, crashed, store_faulty >>

\* ConversationManager.save_user_message / save_assistant_message
MgrSaveMessage(role, content) ==
    /\ IF current_conversation_id = 0
       THEN UNCHANGED << db_msgs, next_msg, clock, lists >>
       ELSE /\ db_msgs' = AddMessage(db_msgs, next_msg, current_conversation_id,
                                     role, content, clock, 0, 0)
            /\ next_msg' = next_msg + 1
            /\ clock' = clock + 1
            /\ lists' = ListAppend(lists, current_messages, Msg(role, content))
    /\ UNCHANGED << api_client, api_key, title_worker, current_conversation_id, current_messages,
                    chat_messages, chat_is_payload, input_enabled, api_worker,
                    workers, queue, current_response, main_pc, db_convs,
                    next_conv, nturns, nnav, ncancel, nfail, notice, crashed,
                    store_faulty >>

MgrSaveUserMessage ==
    next_msg <= MaxSaves /\ \E m \in TextsFor(MaxTurns) : MgrSaveMessage("user", m)

MgrSaveAssistantMessage ==
    next_msg <= MaxSaves /\ \E k \in 1..MaxFrags : MgrSaveMessage("assistant", Concat(k))

NextManager ==
    \/ MgrCreateConversation
    \/ \E c \in ConvIds : MgrLoadConversation(c)
    \/ MgrSaveUserMessage
    \/ MgrSaveAssistantMessage

SpecManager == InitNoFailure /\ [][NextManager]_vars

(***************************************************************************)
(* TitleWorker.  The application creates none; SpecTitleWorker runs one    *)
(* for a conversation of the store and its first user message, next to the *)
(* turns of the main exchange.  `emitted` lists the signals the worker has *)
(* emitted.                                                                *)
(***************************************************************************)
\* what the model may answer to the title prompt
TitleResponses == { "", "  ", "\"\"", " \"Sorting\" ", "'Quick sort'",
                    "A very long title that the model was asked to keep short" }

\* str.strip(chars)
RECURSIVE LStripChars(_, _)
LStripChars(s, chars) ==
    IF s # "" /\ Head(s) \in chars THEN LStripChars(Tail(s), chars) ELSE s

RECURSIVE RStripChars(_, _)
RStripChars(s, chars) ==
    IF s # "" /\ SubSeq(s, Len(s), Len(s)) \in chars
    THEN RStripChars(SubSeq(s, 1, Len(s) - 1), chars)
    ELSE s

StripChars(s, chars) == RStripChars(LStripChars(s, chars), chars)

\* lines 52-55: response.strip().strip('"').strip("'").strip(), truncated
CleanTitle(response) ==
    LET title == Strip(StripChars(StripChars(Strip(response), {"\""}), {"'"}))
    IN IF Len(title) > AUTO_TITLE_MAX_LENGTH
       THEN SubSeq(title, 1, AUTO_TITLE_MAX_LENGTH) \o "..."
       ELSE title

TitleSignal(conversation_id, title) ==
    [sig |-> "title_generated", conversation_id |-> conversation_id, title |-> title]

TitleEmissionsUnchecked(tw) ==
    IF tw.returned /\ tw.response # ""
    THEN << TitleSignal(tw.conversation_id, CleanTitle(tw.response)) >>
    ELSE << >>

\* lines 50-62: what run() emits once chat_completion has returned; a call
\* that failed has returned None
TitleEmissions(tw) ==
    IF tw.returned /\ tw.response # "" /\ CleanTitle(tw.response) # ""
    THEN << TitleSignal(tw.conversation_id, CleanTitle(tw.response)) >>
    ELSE << >>

\* the first user message of a conversation
FirstUserMessages(msgs, c) ==
    LET rows == SelectSeq(msgs, LAMBDA r : r.conv = c /\ r.role = "user")
    IN IF rows = << >> THEN {} ELSE {rows[1].content}

\* TitleWorker.__init__ followed by start()
TitleStart ==
    /\ ~crashed
    /\ api_client
    /\ title_worker.pc = "none"
    /\ \E c \in ExistingConvs(db_convs) : \E m \in FirstUserMessages(db_msgs, c) :
        title_worker' = [NoTitleWorker EXCEPT !.pc = "call", !.conversation_id = c,
                                              !.user_message = m]
    /\ UNCHANGED << api_client, api_key, current_conversation_id, current_messages,
                    chat_messages, chat_is_payload, lists, input_enabled, api_worker,
                    workers, queue, current_response, main_pc, db_convs, db_msgs,
                    next_conv, next_msg, clock, nturns, nnav, ncancel, nfail,
                    notice, crashed, store_faulty >>

\* lines 40-48: APIClient.chat_completion returns the content of the answer,
\* or None when the request raised
TitleCall ==
    /\ ~crashed
    /\ title_worker.pc = "call"
    /\ \/ \E r \in TitleResponses :
            title_worker' = [title_worker EXCEPT !.pc = "answer", !.returned = TRUE,
                                                 !.response = r]
       \/ title_worker' = [title_worker EXCEPT !.pc = "answer", !.returned = FALSE]
    /\ UNCHANGED << api_client, api_key, current_conversation_id, current_messages,
                    chat_messages, chat_is_payload, lists, input_enabled, api_worker,
                    workers, queue, current_response, main_pc, db_convs, db_msgs,
                    next_conv, next_msg, clock, nturns, nnav, ncancel, nfail,
                    notice, crashed, store_faulty >>

\* lines 50-62 and the return of run(); nothing between lines 36 and 62
\* raises, so the except clause has nothing that reaches it
TitleFinish ==
    /\ ~crashed
    /\ title_worker.pc = "answer"
    /\ title_worker' = [title_worker EXCEPT !.pc = "done",
                                            !.emitted = @ \o TitleEmissions(title_worker)]
    /\ UNCHANGED << api_client, api_key, current_conversation_id, current_messages,
                    chat_messages, chat_is_payload, lists, input_enabled, api_worker,
                    workers, queue, current_response, main_pc, db_convs, db_msgs,
                    next_conv, next_msg, clock, nturns, nnav, ncancel, nfail,
                    notice, crashed, store_faulty >>

NextTitleWorker ==
    \/ OnMessageSubmitted
    \/ OnChunkReceived
    \/ OnResponseComplete
    \/ WorkerStep
    \/ TitleStart
    \/ TitleCall
    \/ TitleFinish

SpecTitleWorker == InitNoFailure /\ [][NextTitleWorker]_vars

(***************************************************************************)
(* Renaming a conversation.                                                *)
(***************************************************************************)
\* titles a user may give; none is a title the program derives
RenameTitles == {"My notes"}

\* DatabaseManager.update_conversation_title: UPDATE ... WHERE id = ?
UpdateConversationTitle(convs, c, title) ==
    IF ConvExists(convs, c) THEN [convs EXCEPT ![c] = title] ELSE convs

\* MainWindow._on_rename_conversation
OnRenameConversation(c, new_title) ==
    /\ Idle
    /\ \E ok \in WriteOutcomes :
        IF ok
        THEN /\ db_convs' = UpdateConversationTitle(db_convs, c, new_title)
             /\ notice' = {}
        ELSE /\ db_convs' = db_convs
             /\ notice' = {"rename"}
    /\ UNCHANGED << api_client, api_key, title_worker, current_conversation_id,
                    current_messages, chat_messages, chat_is_payload, lists,
                    input_enabled, api_worker, workers, queue, current_response,
                    main_pc, db_msgs, next_conv, next_msg, clock, nturns, nnav,
                    ncancel, nfail, crashed, store_faulty >>

NextRename ==
    \/ OnMessageSubmitted
    \/ OnNewConversation
    \/ \E c \in ConvIds : OnConversationSelected(c)
    \/ \E c \in ConvIds, t \in RenameTitles : OnRenameConversation(c, t)
    \/ OnChunkReceived
    \/ OnResponseComplete
    \/ WorkerStep

SpecRename == InitNoFailure /\ [][NextRename]_vars
(***************************************************************************)
(* Properties.  A completion is handled in the step in which `handled` of  *)
(* its worker becomes true; a submit is handled in the step that counts    *)
(* it in nturns.                                                           *)
(***************************************************************************)

\* C1: the step that handles the completion of a turn whose stream was
\* exhausted without failure, with no cancel and no change of conversation
\* since the submit, leaves the store with exactly the user message m and
\* then the assistant message f1..fn gained since the submit, in that order
\* in its conversation, and the transcript ends with those two entries.
C1_RoundTrip ==
    [][\A w \in Turns :
        (/\ ~workers[w].handled /\ workers'[w].handled
         /\ workers[w].ended /\ ~workers[w].failed /\ ~workers[w].disturbed)
        => LET pair   == << Msg("user", workers[w].text),
                            Msg("assistant", Concat(workers[w].n)) >>
               gained == SelectSeq(db_msgs', LAMBDA r : r.id >= workers[w].row)
               rows   == GetMessages(db_msgs', workers[w].conv)
               tr     == Items(lists', current_messages')
           IN /\ workers[w].row # 0
              /\ ApiMessages(gained) = pair
              /\ \A i \in 1..Len(gained) : gained[i].conv = workers[w].conv
              /\ Len(rows) >= 2
              /\ ApiMessages(SubSeq(rows, Len(rows) - 1, Len(rows))) = pair
              /\ Len(tr) >= 2
              /\ SubSeq(tr, Len(tr) - 1, Len(tr)) = pair]_vars

C1_Witness ==
    /\ Idle
    /\ Len(db_msgs) >= 2
    /\ LET u  == db_msgs[Len(db_msgs) - 1]
           a  == db_msgs[Len(db_msgs)]
           tr == Items(lists, current_messages)
       IN /\ u.role = "user" /\ a.role = "assistant"
          /\ u.src = a.src /\ u.conv = a.conv
          /\ a.content = Concat(2)
          /\ workers[a.src].handled
          /\ Len(tr) >= 2
          /\ tr[Len(tr)] = Msg("assistant", Concat(2))
          /\ tr[Len(tr) - 1] = Msg("user", u.content)

\* C2: when Escape was pressed for a turn after its worker had received a
\* fragment and before its completion was handled, the step that handles
\* the completion of that turn persists no message and appends nothing to
\* the transcript.
C2_CancelPersistsNothing ==
    [][\A w \in Turns :
        (~workers[w].handled /\ workers'[w].handled /\ workers[w].cancel_req)
        => /\ db_msgs' = db_msgs
           /\ Items(lists', current_messages') = Items(lists, current_messages)]_vars

\* C3: the step that handles the completion of a turn whose fragment
\* sequence ended with the error sentinel persists no message and appends
\* nothing to the transcript.
C3_FailurePersistsNothing ==
    [][\A w \in Turns :
        (~workers[w].handled /\ workers'[w].handled /\ workers[w].failed)
        => /\ db_msgs' = db_msgs
           /\ Items(lists', current_messages') = Items(lists, current_messages)]_vars

\* C4: the step that handles the completion of a turn whose conversation
\* still exists adds the assistant message to the conversation the turn was
\* launched for.
C4_SavedToLaunchConversation ==
    [][\A w \in Turns :
        (/\ ~workers[w].handled /\ workers'[w].handled
         /\ ConvExists(db_convs, workers[w].conv))
        => /\ Len(db_msgs') = Len(db_msgs) + 1
           /\ db_msgs'[Len(db_msgs')].role = "assistant"
           /\ db_msgs'[Len(db_msgs')].conv = workers[w].conv]_vars

\* C5: a submit handled while the worker of the window is live starts no
\* second worker, writes nothing to the store and reports AlreadyStreaming.
C5_SecondSubmitRejected ==
    [][(/\ nturns' = nturns + 1
        /\ api_worker # 0 /\ Live(workers, api_worker))
       => /\ workers'[nturns'].pc = "none"
          /\ api_worker' = api_worker
          /\ db_msgs' = db_msgs
          /\ "already_streaming" \in notice']_vars

\* C6: at most one worker is started and not finished.
C6_OneLiveWorker == Cardinality(LiveWorkers(workers)) <= 1

C6_Witness ==
    /\ nturns = 2
    /\ Live(workers, 2)
    /\ workers[1].pc = "done"

C8_NoClientNoEffect ==
    [][(nturns' = nturns + 1 /\ ~api_client /\ ~crashed)
       => /\ "no_client" \in notice'
          /\ main_pc' = "idle"
          /\ input_enabled'
          /\ workers'[nturns'].pc = "none"
          /\ api_worker' = api_worker
          /\ db_convs' = db_convs
          /\ db_msgs' = db_msgs
          /\ next_conv' = next_conv
          /\ next_msg' = next_msg
          /\ current_conversation_id' = current_conversation_id
          /\ Items(lists', current_messages') = Items(lists, current_messages)]_vars

C8_Witness ==
    /\ "no_client" \in notice
    /\ nturns >= 1
    /\ workers[nturns].pc = "none"
    /\ ~api_client
    /\ input_enabled

\* C9: the store returns the messages of every conversation in the order
\* in which they were added.
C9_ReturnOrderIsInsertOrder ==
    \A c \in ConvIds : GetMessages(db_msgs, c) = RowsOf(db_msgs, c)

\* C10: while the renderer holds the list delivered by the last load, that
\* list is not the transcript, and neither an append to the transcript nor
\* a change of the content of one of its entries changes the delivered
\* list.
C10_PayloadIndependent ==
    chat_is_payload
    => /\ chat_messages # current_messages
       /\ Items(ListAppend(lists, current_messages, Msg("user", "late")), chat_messages)
             = Items(lists, chat_messages)
       /\ \A i \in 1..Len(Items(lists, current_messages)) :
             Items(DictSetContent(lists, current_messages, i, "changed"), chat_messages)
                = Items(lists, chat_messages)

C10_Witness ==
    /\ chat_is_payload
    /\ lists[current_messages].nl >= 1
    /\ Len(Items(lists, current_messages)) > lists[current_messages].nl

\* C11: the step that handles a submit or a completion appends to the
\* transcript exactly the message it has written to the store, and nothing
\* when the write failed or was not made; and every entry of the transcript
\* is, at the same position, a message of the current conversation in the
\* store.
C11_TranscriptInStore ==
    [][/\ (/\ \/ nturns' = nturns + 1
              \/ \E w \in Turns : ~workers[w].handled /\ workers'[w].handled
           /\ ~crashed')
          => LET tr  == Items(lists, current_messages)
                 tr1 == Items(lists', current_messages')
             IN IF db_msgs' = db_msgs
                THEN tr1 = tr
                ELSE /\ Len(db_msgs') = Len(db_msgs) + 1
                     /\ db_msgs'[Len(db_msgs')].conv = current_conversation_id'
                     /\ tr1 = Append(tr, Msg(db_msgs'[Len(db_msgs')].role,
                                             db_msgs'[Len(db_msgs')].content))
       /\ LET tr1  == Items(lists', current_messages')
              rows == ApiMessages(RowsOf(db_msgs', current_conversation_id'))
          IN /\ Len(tr1) <= Len(rows)
             /\ \A i \in 1..Len(tr1) : tr1[i] = rows[i]]_vars

\* a submit whose message the store refused, then a completion the store
\* refused too
C11_Witness ==
    /\ store_faulty
    /\ current_conversation_id # 0
    /\ \E w \in Turns : /\ workers[w].handled /\ workers[w].row = 0
                        /\ workers[w].n >= 1 /\ workers[w].conv # 0
                        /\ \A i \in 1..Len(db_msgs) : db_msgs[i].src # w
    /\ Items(lists, current_messages) # << >>

C13_ProvisionalTitle ==
    [][(/\ nturns' = nturns + 1 /\ api_client /\ ~crashed'
        /\ \/ current_conversation_id = 0
           \/ Items(lists, current_messages) = << >>)
       => LET t == Strip(workers'[nturns'].text)
              L == AUTO_TITLE_MAX_LENGTH
          IN /\ workers'[nturns'].pc = "init"
             /\ db_convs'[current_conversation_id'] =
                   IF Len(t) > L THEN SubSeq(t, 1, L - 1) \o "..." ELSE t
             /\ GenerateTitleFromMessage("Explain quicksort in detail please", 25)
                   = "Explain quicksort in det..."]_vars

C15_LaterSubmitShown ==
    [][(/\ nturns' = nturns + 1 /\ nturns >= 1
        /\ workers[nturns].pc # "none"
        /\ ~crashed /\ ~crashed')
       => LET old == Items(lists, chat_messages)
              new == Items(lists', chat_messages')
          IN \E i \in 1..Len(new) :
                /\ i > Len(old)
                /\ new[i] = Msg("user", workers'[nturns'].text)]_vars

\* C16: the step in which a cancel returns leaves the control thread idle
\* with no worker, the renderer without placeholder and the input enabled;
\* the step that handles a completion of the cancelled task afterwards
\* changes neither the store, nor the transcript, nor the renderer, nor the
\* worker of the window, nor the input; and the step that handles the
\* completion of a turn submitted after the cancel, its stream exhausted
\* without failure and nothing else having happened since its submit,
\* persists exactly one assistant message, in the conversation of the turn.
C16_AfterCancel ==
    [][/\ (main_pc = "wait_cancel" /\ main_pc' = "idle" /\ ~crashed')
          => /\ api_worker' = 0
             /\ input_enabled'
             /\ ~HasPlaceholder(Items(lists', chat_messages'))
       /\ \A w \in Turns :
            (~workers[w].handled /\ workers'[w].handled /\ workers[w].cancelled)
            => /\ db_msgs' = db_msgs
               /\ Items(lists', current_messages') = Items(lists, current_messages)
               /\ Items(lists', chat_messages') = Items(lists, chat_messages)
               /\ api_worker' = api_worker
               /\ input_enabled' = input_enabled
               /\ ~crashed'
       /\ \A w \in Turns :
            (/\ ~workers[w].handled /\ workers'[w].handled
             /\ ncancel >= 1 /\ ~workers[w].cancelled /\ ~workers[w].disturbed
             /\ workers[w].ended /\ ~workers[w].failed)
            => /\ Len(db_msgs') = Len(db_msgs) + 1
               /\ db_msgs'[Len(db_msgs')].role = "assistant"
               /\ db_msgs'[Len(db_msgs')].conv = workers[w].conv]_vars

\* C17: a control thread that waits for the worker in a cancel always
\* gets out of the wait, whether or not the worker stops.
C17_CancelWaitBounded == (main_pc = "wait_cancel") ~> (main_pc = "idle")

C19_NoPlaceholderWhileDispatching ==
    (/\ ~crashed
     /\ api_worker # 0
     /\ Live(workers, api_worker)
     /\ workers[api_worker].n = 0
     /\ current_response = "")
    => ~HasPlaceholder(Items(lists, chat_messages))

\* C20: the step that handles Escape while the worker of the window has
\* been started and no fragment of it has arrived, its thread in run() or
\* not yet, tells the worker to stop and waits for it; and a turn for which
\* Escape was pressed before any fragment accumulates no fragment
\* afterwards, and the step that handles its completion, if any, persists
\* nothing.
C20_CancelWhileDispatching ==
    [][/\ (/\ ncancel' = ncancel + 1
           /\ api_worker # 0
           /\ workers[api_worker].pc \in {"init", "loop"}
           /\ workers[api_worker].n = 0 /\ ~workers[api_worker].failed)
          => /\ main_pc' = "wait_cancel"
             /\ ~IsRunning(workers', api_worker)
       /\ \A w \in Turns :
            (/\ workers[w].disturbed /\ nnav = 0
             /\ workers[w].n = 0 /\ ~workers[w].failed)
            => /\ workers'[w].full_response = workers[w].full_response
               /\ (~workers[w].handled /\ workers'[w].handled) => db_msgs' = db_msgs]_vars

\* C21: the step that handles a completion first takes the placeholder
\* out of the list of the renderer, which then holds none, and pushes the
\* assistant message to that list; and whenever the list of the renderer
\* holds a placeholder, the completion of the turn of the window's worker
\* has not been handled.
C21_RemoveThenFinalize ==
    [][/\ \A w \in Turns :
            (~workers[w].handled /\ workers'[w].handled)
            => LET mid == HideTyping(Items(lists, chat_messages))
               IN /\ ~HasPlaceholder(mid)
                  /\ Items(lists', chat_messages')
                        = ChatAppend(mid, "assistant", Head(queue).arg)
                  /\ ~HasPlaceholder(Items(lists', chat_messages'))
       /\ HasPlaceholder(Items(lists', chat_messages'))
            => /\ api_worker' # 0
               /\ ~workers'[api_worker'].handled]_vars

\* a completion with two fragments was handled while the placeholder was shown
C21_Witness ==
    /\ Idle
    /\ LET items == Items(lists, chat_messages)
       IN /\ Len(items) >= 2
          /\ items[Len(items)] = Msg("assistant", Concat(2))
          /\ items[Len(items) - 1].role = "user"
          /\ ~HasPlaceholder(items)
    /\ \E w \in Turns : workers[w].handled
    /\ api_worker = 0

\* C22: the step that handles the arrival of a fragment changes
\* current_response only: the list of the renderer, the store, the current
\* conversation id and the transcript stay as they are; a step that is
\* neither the handling of a completion nor a navigation leaves the
\* assistant entries of the renderer, placeholder apart, as they are; and
\* the step that handles the completion of a turn leaves its content as the
\* last entry of the renderer, having added at most one entry.
C22_FragmentsNotRendered ==
    [][LET Shown(items) == SelectSeq(items, LAMBDA e : e.role = "assistant"
                                                       /\ ~IsTyping(e.content))
           completion == \E w \in Turns : ~workers[w].handled /\ workers'[w].handled
           old == Items(lists, chat_messages)
           new == Items(lists', chat_messages')
       IN /\ (/\ ~crashed /\ main_pc = "idle" /\ queue # << >>
              /\ queue' = Tail(queue)
              /\ Head(queue).sig = "chunk_received")
             => /\ current_response' = current_response \o Head(queue).arg
                /\ new = old
                /\ db_msgs' = db_msgs /\ db_convs' = db_convs
                /\ current_conversation_id' = current_conversation_id
                /\ Items(lists', current_messages') = Items(lists, current_messages)
          /\ (~completion /\ nnav' = nnav /\ ~crashed') => Shown(new) = Shown(old)
          /\ completion
             => /\ new # << >>
                /\ new[Len(new)] = Msg("assistant", Head(queue).arg)
                /\ \/ Shown(new) = Shown(old)
                   \/ Shown(new) = Append(Shown(old), Msg("assistant", Head(queue).arg))]_vars

\* two fragments have arrived and nothing of them is in the renderer or in
\* the store
C22_Witness ==
    /\ Idle
    /\ current_response = Concat(2)
    /\ api_worker # 0
    /\ HasPlaceholder(Items(lists, chat_messages))
    /\ \A i \in 1..Len(Items(lists, chat_messages)) :
          Items(lists, chat_messages)[i].role = "assistant"
          => IsTyping(Items(lists, chat_messages)[i].content)
    /\ \A i \in 1..Len(db_msgs) : db_msgs[i].role = "user"

UnderResponseMutex == OnChunkReceived

\* C24: every step that writes MainWindow.current_response, or the
\* _is_running flag or the _full_response buffer of a worker, is made while
\* the one lock of the program is held, whichever thread makes it.
C24_WritesUnderOneLock ==
    [][(\/ current_response' # current_response
        \/ \E w \in Turns :
             /\ workers[w].pc # "none"
             /\ workers'[w].pc # "none"
             /\ \/ workers'[w].is_running # workers[w].is_running
                \/ workers'[w].full_response # workers[w].full_response)
       => UnderResponseMutex]_vars

(***************************************************************************)
(* C25.  The list load_conversation returns.                               *)
(***************************************************************************)
\* C25: a save_user_message or save_assistant_message on the manager leaves
\* the list its last load_conversation returned as it was.
C25_ReturnedListIsCopy ==
    [][next_msg' # next_msg
       => Items(lists', chat_messages') = Items(lists, chat_messages)]_vars

(***************************************************************************)
(* C26.  A submit whose message the store refuses.                         *)
(***************************************************************************)
\* C26: every streaming task a submit launches is given a history whose last
\* entry is the user message just submitted, which the store holds: a submit
\* whose message could not be persisted launches no task.
C26_NoLaunchWithoutPersist ==
    [][\A w \in Turns :
        (workers[w].pc = "none" /\ workers'[w].pc = "init")
        => LET history == Items(lists', workers'[w].messages)
           IN /\ workers'[w].row # 0
              /\ \E i \in 1..Len(db_msgs') :
                    /\ db_msgs'[i].id = workers'[w].row
                    /\ db_msgs'[i].role = "user"
                    /\ db_msgs'[i].content = workers'[w].text
              /\ history # << >>
              /\ history[Len(history)] = Msg("user", workers'[w].text)]_vars

C28_TitleRun ==
    /\ [](/\ Len(title_worker.emitted) <= 1
          /\ \A i \in 1..Len(title_worker.emitted) :
                /\ title_worker.pc = "done"
                /\ title_worker.emitted[i].sig = "title_generated"
                /\ title_worker.emitted[i].conversation_id = title_worker.conversation_id
                /\ ConvExists(db_convs, title_worker.emitted[i].conversation_id)
                /\ title_worker.emitted[i].title # ""
                /\ Len(title_worker.emitted[i].title) <= AUTO_TITLE_MAX_LENGTH + 3
          /\ (title_worker.pc = "done" /\ ~title_worker.returned)
                => title_worker.emitted = << >>)
    /\ [][title_worker' # title_worker
          => UNCHANGED << api_client, api_key, current_conversation_id,
                          current_messages, chat_messages, chat_is_payload, lists,
                          input_enabled, api_worker, workers, queue,
                          current_response, main_pc, db_convs, db_msgs, next_conv,
                          next_msg, clock, notice, crashed >>]_vars

\* a run that ended with the notification of a shortened title while a
\* turn of the conversation was streaming
C28_Witness ==
    /\ title_worker.pc = "done"
    /\ Len(title_worker.emitted) = 1
    /\ Len(title_worker.emitted[1].title) = AUTO_TITLE_MAX_LENGTH + 3
    /\ api_worker # 0
    /\ workers[api_worker].pc = "loop"

(***************************************************************************)
(* C29.  The renderer and the transcript.                                  *)
(***************************************************************************)
\* C29: whenever no turn is in progress (the control thread is in no
\* handler, there is no worker and the input is enabled), the renderer's
\* list has the roles and contents of the transcript of Session State in
\* the same order, and is empty when no conversation is current.
C29_RendererMirrorsTranscript ==
    (Idle /\ api_worker = 0 /\ input_enabled)
    => /\ Items(lists, chat_messages) = Items(lists, current_messages)
       /\ current_conversation_id = 0 => Items(lists, chat_messages) = << >>

(***************************************************************************)
(* C30.  Titles set by the user.                                           *)
(***************************************************************************)
\* C30: a title the user gave a conversation by renaming it stays the title
\* of the conversation for as long as the conversation exists, whatever is
\* submitted to it; a submit changes the title of an existing conversation
\* only when that title is the default one and the store holds no message
\* of the conversation.
C30_UserTitleKept ==
    [][\A c \in ConvIds :
        /\ db_convs[c] \in RenameTitles
             => db_convs'[c] \in RenameTitles \cup {NoTitle}
        /\ (/\ nturns' = nturns + 1
            /\ ConvExists(db_convs, c)
            /\ db_convs'[c] # db_convs[c])
             => /\ db_convs[c] = DefaultTitle
                /\ RowsOf(db_msgs, c) = << >>]_vars
====
